---------------------------- MODULE Spec2Model ----------------------------
(***************************************************************************)
(* A model of the Tauri command handlers of src-tauri/src/main.rs.         *)
(*                                                                         *)
(* Text (a Rust &str / String) is a sequence of symbols.  A symbol is one  *)
(* character, except that the keywords the handlers search for             *)
(* ("silence_start:", "-i", "ffprobe failed: ", ...) are single symbols:   *)
(* no other symbol of the model contains a piece of one, so a substring    *)
(* search over symbols finds exactly what the search over characters does. *)
(*                                                                         *)
(* An f64 is a decimal [m, e] standing for m / 10^e, kept normalised       *)
(* (no trailing zero in the fraction).  Binary rounding is not modelled.   *)
(***************************************************************************)
EXTENDS Integers, Sequences, FiniteSets, TLC

(***************************************************************************)
(* Bounds of the model.                                                    *)
(***************************************************************************)
MaxLines == 4
MaxStdoutLen == 3
MaxSegments == 2
NumJobs == 2

(***************************************************************************)
(* str: contains, find, split(..).nth(1), split_once, trim, replace.       *)
(***************************************************************************)
MatchesAt(s, pat, i) ==
    /\ i >= 1
    /\ i + Len(pat) - 1 <= Len(s)
    /\ \A k \in 1..Len(pat) : s[i + k - 1] = pat[k]

\* str::find: the index of the first occurrence of pat in s, 0 when there is none.
Find(s, pat) ==
    LET hits == {i \in 1..(Len(s) + 1) : MatchesAt(s, pat, i)}
    IN  IF hits = {} THEN 0 ELSE CHOOSE i \in hits : \A j \in hits : i <= j

Contains(s, pat) == Find(s, pat) # 0

None == [some |-> FALSE, v |-> <<>>]
Some(x) == [some |-> TRUE, v |-> x]

\* s.split(pat).nth(1): the text between the first occurrence of pat and the
\* next one (or the end of s); None when pat does not occur.
SplitNth1(s, pat) ==
    LET i == Find(s, pat)
        rest == SubSeq(s, i + Len(pat), Len(s))
        j == Find(rest, pat)
    IN  IF i = 0 THEN None
        ELSE IF j = 0 THEN Some(rest)
        ELSE Some(SubSeq(rest, 1, j - 1))

\* s.split_once(c), keeping the part before the first c (the .0 of the pair).
SplitOnceFirst(s, c) ==
    LET i == Find(s, <<c>>)
    IN  IF i = 0 THEN None ELSE Some(SubSeq(s, 1, i - 1))

WhiteSpace == {" ", "\n", "\t"}

RECURSIVE TrimStart(_)
TrimStart(s) ==
    IF s # <<>> /\ s[1] \in WhiteSpace THEN TrimStart(Tail(s)) ELSE s

RECURSIVE TrimEnd(_)
TrimEnd(s) ==
    IF s # <<>> /\ s[Len(s)] \in WhiteSpace
    THEN TrimEnd(SubSeq(s, 1, Len(s) - 1))
    ELSE s

Trim(s) == TrimEnd(TrimStart(s))

\* s.replace(c, to) for a one-character pattern c.
RECURSIVE Replace(_, _, _)
Replace(s, c, to) ==
    IF s = <<>> THEN <<>>
    ELSE (IF s[1] = c THEN to ELSE <<s[1]>>) \o Replace(Tail(s), c, to)

(***************************************************************************)
(* f64: parse::<f64>() and the Display form written by format!("{}", x).   *)
(***************************************************************************)
DigitChars == <<"0", "1", "2", "3", "4", "5", "6", "7", "8", "9">>

IsDigit(c) == \E d \in 1..10 : DigitChars[d] = c

DigitVal(c) == (CHOOSE d \in 1..10 : DigitChars[d] = c) - 1

RECURSIVE DigitsValue(_)
DigitsValue(ds) ==
    IF ds = <<>> THEN 0
    ELSE DigitsValue(SubSeq(ds, 1, Len(ds) - 1)) * 10 + DigitVal(ds[Len(ds)])

RECURSIVE Pow10(_)
Pow10(n) == IF n = 0 THEN 1 ELSE 10 * Pow10(n - 1)

RECURSIVE Normalise(_)
Normalise(d) ==
    IF d.e > 0 /\ d.m % 10 = 0
    THEN Normalise([m |-> d.m \div 10, e |-> d.e - 1])
    ELSE d

Zero == [m |-> 0, e |-> 0]

\* The decimal grammar of f64::from_str over the symbols of the model: an
\* optional sign, digits with at most one point, at least one digit.  (The
\* exponent and the inf / nan spellings need letters the model's texts lack.)
ParseF64(s) ==
    LET signed == s # <<>> /\ s[1] \in {"+", "-"}
        body == IF signed THEN Tail(s) ELSE s
        dot == Find(body, <<".">>)
        ip == IF dot = 0 THEN body ELSE SubSeq(body, 1, dot - 1)
        fp == IF dot = 0 THEN <<>> ELSE SubSeq(body, dot + 1, Len(body))
        wellFormed ==
            /\ \A k \in 1..Len(ip) : IsDigit(ip[k])
            /\ \A k \in 1..Len(fp) : IsDigit(fp[k])
            /\ Len(ip) + Len(fp) >= 1
        mag == DigitsValue(ip \o fp)
        neg == signed /\ s[1] = "-"
    IN  IF wellFormed
        THEN [ok |-> TRUE,
              val |-> Normalise([m |-> IF neg THEN 0 - mag ELSE mag, e |-> Len(fp)])]
        ELSE [ok |-> FALSE, val |-> Zero]

RECURSIVE DigitsOf(_)
DigitsOf(n) ==
    IF n < 10 THEN <<DigitChars[n + 1]>>
    ELSE DigitsOf(n \div 10) \o <<DigitChars[(n % 10) + 1]>>

RECURSIVE PadLeft(_, _)
PadLeft(ds, w) == IF Len(ds) >= w THEN ds ELSE PadLeft(<<"0">> \o ds, w)

\* format!("{}", x): 1.0 prints as "1", 2.5 as "2.5".
Display(d) ==
    LET n == Normalise(d)
        mag == IF n.m < 0 THEN 0 - n.m ELSE n.m
        sign == IF n.m < 0 THEN <<"-">> ELSE <<>>
        ip == mag \div Pow10(n.e)
        fp == mag % Pow10(n.e)
    IN  IF n.e = 0 THEN sign \o DigitsOf(ip)
        ELSE sign \o DigitsOf(ip) \o <<".">> \o PadLeft(DigitsOf(fp), n.e)

\* a - b
Sub(a, b) ==
    LET e == IF a.e >= b.e THEN a.e ELSE b.e
    IN  Normalise([m |-> a.m * Pow10(e - a.e) - b.m * Pow10(e - b.e), e |-> e])

\* a < b
Less(a, b) == Sub(a, b).m < 0

(***************************************************************************)
(* escape_path                                                             *)
(***************************************************************************)
\* PathBuf::from(path).to_string_lossy().into_owned(): PathBuf::from stores the
\* bytes of the &str unchanged and a &str is valid UTF-8, so nothing is replaced.
ToStringLossy(path) == path

NeedsEscaping(path_str) ==
    \/ Contains(path_str, <<" ">>)
    \/ Contains(path_str, <<"'">>)
    \/ Contains(path_str, <<"&">>)

escape_path(path) ==
    LET path_str == ToStringLossy(path)
    IN  IF NeedsEscaping(path_str)
        THEN <<"'">> \o Replace(path_str, "'", <<"'", "\\", "'", "'">>) \o <<"'">>
        ELSE path_str

\* The paths the callers pass.
Paths ==
    { <<"/", "a">>, <<"a", " ", "b">>, <<"'", "a">>, <<"a", "&">>, <<"a">>, <<>> }

(***************************************************************************)
(* std::process::Command: the outcome of .status() / .output().            *)
(***************************************************************************)
ExitCodes == {0, 1}

SpawnFailed == [spawned |-> FALSE, code |-> 0, stdout |-> <<>>, stderr |-> <<>>]
Exited(c, out, err) == [spawned |-> TRUE, code |-> c, stdout |-> out, stderr |-> err]

\* ExitStatus::success
Success(outcome) == outcome.code = 0

\* io::Error's Display text, one symbol.
IoError == <<"No such file or directory (os error 2)">>

Ok(v) == [ok |-> TRUE, val |-> v, msg |-> <<>>]
Err(m) == [ok |-> FALSE, val |-> <<>>, msg |-> m]
NoResult == [ok |-> FALSE, val |-> <<>>, msg |-> <<"pending">>]

\* One argument of an argument vector that is a fixed literal.
Lit(s) == <<s>>

NoLaunch == [program |-> "", args |-> <<>>]

VARIABLES
    aPath,      \* analyze_silence: file_path
    aStderr,    \* analyze_silence: the lines ffmpeg writes to stderr
    aPc,        \* analyze_silence: "call" | "done"
    aLaunch,    \* analyze_silence: the process launched
    aSpawned,   \* analyze_silence: whether Command::output() returned Ok
    aResult     \* analyze_silence: the Result returned

silenceVars == <<aPath, aStderr, aPc, aLaunch, aSpawned, aResult>>

VARIABLES
    tInput,     \* transcribe_audio: input_path of each call
    tPc,        \* transcribe_audio: where each call is
    tLaunches,  \* transcribe_audio: the processes each call has launched, in order
    tExtract,   \* transcribe_audio: what became of each call's ffmpeg
    tHeard,     \* the extraction whose audio each call's whisper read (0: none)
    tReads,     \* transcribe_audio: how many times each call read the transcript
    tResult,    \* transcribe_audio: the Result each call returned
    fs          \* the files under /tmp: the extraction each one comes from (0: absent)

transVars == <<tInput, tPc, tLaunches, tExtract, tHeard, tReads, tResult, fs>>

VARIABLES
    cCall,      \* the last command invoked, with its arguments
    cLaunch,    \* the process that call launched (NoLaunch: none)
    cOutcome,   \* what became of that process
    cResult     \* the Result the call returned

cmdVars == <<cCall, cLaunch, cOutcome, cResult>>

vars == <<silenceVars, transVars, cmdVars>>

(***************************************************************************)
(* analyze_silence                                                         *)
(***************************************************************************)
KwStart == "silence_start:"
KwEnd == "silence_end:"

\* The timestamp texts of the analyzer lines.
TimeTexts ==
    { <<"1", ".", "0">>, <<"2", ".", "5">>, <<"4", ".", "0">>, <<"4", ".", "2">> }

StartLine(t) == <<KwStart, " ">> \o t
EndLine(t, d) == <<KwEnd, " ">> \o t \o <<" ", "|", " ", "silence_duration:", " ">> \o d
NoiseLine == <<"size=N/A time=00:00:05.00 bitrate=N/A speed= 100x">>
BareEndLine == <<KwEnd, " ", "2", ".", "5">>

StartLines == {StartLine(t) : t \in TimeTexts}
EndLines ==
    { EndLine(<<"1", ".", "0">>, <<"0", ".", "2">>), EndLine(<<"2", ".", "5">>, <<"1", ".", "5">>),
      EndLine(<<"4", ".", "0">>, <<"1", ".", "5">>), EndLine(<<"4", ".", "2">>, <<"0", ".", "2">>) }

LineShapes == StartLines \cup EndLines \cup {NoiseLine, BareEndLine}

RECURSIVE SeqsUpTo(_, _)
SeqsUpTo(S, n) ==
    IF n = 0 THEN {<<>>}
    ELSE LET shorter == SeqsUpTo(S, n - 1)
         IN  shorter \cup {Append(s, x) : s \in {t \in shorter : Len(t) = n - 1}, x \in S}

\* Lines 160-161: the start timestamp of a line that contains "silence_start:".
StartOf(line) ==
    LET piece == SplitNth1(line, <<KwStart, " ">>)
    IN  IF Contains(line, <<KwStart>>) /\ piece.some
        THEN ParseF64(Trim(piece.v))
        ELSE [ok |-> FALSE, val |-> Zero]

\* Lines 163-166: the end timestamp end_line gives for the start s, if any.
\* (Line 165 is written `if let Ok(e) = end.split_once(' ')`; split_once returns
\* an Option, and the binding is read here as the Some it can only mean.)
EndFor(end_line, s) ==
    LET end == SplitNth1(end_line, <<KwEnd, " ">>)
        e == SplitOnceFirst(end.v, " ")
    IN  IF /\ Contains(end_line, <<KwEnd>>)
           /\ ~Contains(end_line, <<KwStart, " ">> \o Display(s))
           /\ end.some
           /\ e.some
        THEN ParseF64(Trim(e.v))
        ELSE [ok |-> FALSE, val |-> Zero]

\* Lines 162-177: the inner loop runs over all of stderr.lines() from the first
\* line and stops at the first line that gives an end.
RECURSIVE InnerLoop(_, _, _)
InnerLoop(lines, j, s) ==
    IF j > Len(lines) THEN <<>>
    ELSE LET end_val == EndFor(lines[j], s)
         IN  IF end_val.ok
             THEN << [start |-> s, end |-> end_val.val, duration |-> Sub(end_val.val, s)] >>
             ELSE InnerLoop(lines, j + 1, s)

\* Lines 158-181: the outer loop over stderr.lines().
RECURSIVE OuterLoop(_, _)
OuterLoop(lines, i) ==
    IF i > Len(lines) THEN <<>>
    ELSE LET s == StartOf(lines[i])
         IN  (IF s.ok THEN InnerLoop(lines, 1, s.val) ELSE <<>>) \o OuterLoop(lines, i + 1)

\* The threshold_db the callers pass: -30.0.
ThresholdDb == [m |-> 0 - 30, e |-> 0]

\* Lines 143-150: the ffmpeg invocation.
SilenceArgs(file_path) ==
    << Lit("-i"), escape_path(file_path),
       Lit("-af"), <<"silencedetect=noise=">> \o Display(ThresholdDb) \o <<"dB:d=0.5">>,
       Lit("-f"), Lit("null"), Lit("-") >>

NoCall ==
    [cmd |-> "none", input_path |-> <<>>, output_path |-> <<>>, start_time |-> Zero,
     end_time |-> Zero, segments |-> <<>>, format |-> "", quality |-> ""]

NotRun == SpawnFailed

CmdIdle ==
    /\ cCall = NoCall
    /\ cLaunch = NoLaunch
    /\ cOutcome = NotRun
    /\ cResult = NoResult

TransIdle ==
    /\ tInput = <<>>
    /\ tPc = <<>>
    /\ tLaunches = <<>>
    /\ tExtract = <<>>
    /\ tHeard = <<>>
    /\ tReads = <<>>
    /\ tResult = <<>>
    /\ fs = <<>>

SilencePaths == { <<"/", "a">>, <<"a", " ", "b">> }

analyze_silence ==
    /\ aPc = "call"
    /\ aPc' = "done"
    /\ aLaunch' = [program |-> "ffmpeg", args |-> SilenceArgs(aPath)]
    /\ \E spawned \in BOOLEAN :
          /\ aSpawned' = spawned
          /\ aResult' = IF spawned
                        THEN Ok(OuterLoop(aStderr, 1))
                        ELSE Err(<<"Failed to analyze silence: ">> \o IoError)
    /\ UNCHANGED <<aPath, aStderr>>
    /\ UNCHANGED <<transVars, cmdVars>>

SilenceInit ==
    /\ aPath \in SilencePaths
    /\ aStderr \in SeqsUpTo(LineShapes, MaxLines)
    /\ aPc = "call"
    /\ aLaunch = NoLaunch
    /\ aSpawned = FALSE
    /\ aResult = NoResult

InitSilence == SilenceInit /\ TransIdle /\ CmdIdle

SpecSilence == InitSilence /\ [][analyze_silence]_vars

(***************************************************************************)
(* Claims about analyze_silence.                                           *)
(***************************************************************************)
IsEvent(line) == Contains(line, <<KwStart>>) \/ Contains(line, <<KwEnd>>)

Events(text) == SelectSeq(text, IsEvent)

\* The event lines are start, end, start, end, ..., each in the documented form.
Alternating(text) ==
    LET ev == Events(text)
    IN  /\ Len(ev) % 2 = 0
        /\ \A k \in 1..Len(ev) :
              IF k % 2 = 1 THEN ev[k] \in StartLines ELSE ev[k] \in EndLines

\* The kinds alone alternate: start, end, start, end, ...
KindsAlternate(text) ==
    LET ev == Events(text)
    IN  /\ Len(ev) % 2 = 0
        /\ \A k \in 1..Len(ev) :
              IF k % 2 = 1
              THEN Contains(ev[k], <<KwStart>>) /\ ~Contains(ev[k], <<KwEnd>>)
              ELSE Contains(ev[k], <<KwEnd>>) /\ ~Contains(ev[k], <<KwStart>>)

\* The timestamp written on a documented event line.
TimeOf(line) ==
    ParseF64(CHOOSE t \in TimeTexts :
                \/ line = StartLine(t)
                \/ \E d \in {<<"1", ".", "5">>, <<"0", ".", "2">>} : line = EndLine(t, d)).val

StrictlyIncreasing(text) ==
    LET ev == Events(text)
    IN  \A k \in 1..(Len(ev) - 1) : Less(TimeOf(ev[k]), TimeOf(ev[k + 1]))

Returned == aPc = "done" /\ aSpawned

\* C1: for analyzer text whose event lines alternate silence_start /
\* silence_end, the k-th interval returned has the timestamp of the k-th
\* silence_start line as its start and the timestamp of the silence_end line
\* that follows it as its end.
C1_SilencePairing ==
    (Returned /\ Alternating(aStderr)) =>
        LET ev == Events(aStderr)
        IN  /\ aResult.ok
            /\ Len(aResult.val) = Len(ev) \div 2
            /\ \A k \in 1..Len(aResult.val) :
                  /\ aResult.val[k].start = TimeOf(ev[2 * k - 1])
                  /\ aResult.val[k].end = TimeOf(ev[2 * k])

\* C2: for well-formed alternating text with strictly increasing timestamps,
\* the returned intervals are in chronological order of start and each has
\* end > start and duration = end - start > 0.
C2_ChronologicalPositive ==
    (Returned /\ Alternating(aStderr) /\ StrictlyIncreasing(aStderr)) =>
        /\ aResult.ok
        /\ \A k \in 1..Len(aResult.val) :
              /\ Less(aResult.val[k].start, aResult.val[k].end)
              /\ Less(Zero, aResult.val[k].duration)
              /\ k < Len(aResult.val) =>
                    Less(aResult.val[k].start, aResult.val[k + 1].start)

\* C3: when the event lines are not a strict alternation start, end, start,
\* end, ... the call returns an error, never an Ok list of intervals.
C3_MalformedRejected ==
    (Returned /\ ~KindsAlternate(aStderr)) => ~aResult.ok


(***************************************************************************)
(* transcribe_audio, one call per job, the calls running concurrently      *)
(* (each #[tauri::command] async fn runs on its own task).  A call is      *)
(* suspended only while one of its two child processes runs.               *)
(***************************************************************************)
Jobs == 1..NumJobs

\* Line 234.  The name does not depend on the call.
temp_wav == <<"/tmp/", "clipflow_audio", ".wav">>

\* Line 272: temp_wav.replace(".wav", ".json"); whisper --output_dir /tmp names
\* its JSON after the audio file, so this is also the file whisper writes.
json_path == Replace(temp_wav, ".wav", <<".json">>)

Files == {temp_wav, json_path}

WhisperModel == Lit("base")

\* Lines 237-246.
ExtractArgs(input_path) ==
    << Lit("-i"), escape_path(input_path), Lit("-vn"), Lit("-acodec"), Lit("pcm_s16le"),
       Lit("-ar"), Lit("16000"), Lit("-ac"), Lit("1"), temp_wav, Lit("-y") >>

\* Lines 259-266.
WhisperArgs(model) ==
    << temp_wav, Lit("--model"), model, Lit("--output_format"), Lit("json"),
       Lit("--output_dir"), Lit("/tmp"), Lit("--language"), Lit("English") >>

\* Mutant of ExtractionSucceeded: the exit status of ffmpeg is not looked at.
ExtractionSucceeded_Unchecked(status) == TRUE

\* Lines 249-256: whether the call goes on after the extraction.
ExtractionSucceeded(status) == status = "exit0"

\* Lines 237-247 and 255: Command::status() launches ffmpeg, or fails to.
SpawnExtract(j) ==
    /\ tPc[j] = "start"
    /\ \E spawned \in BOOLEAN :
          IF spawned
          THEN /\ tPc' = [tPc EXCEPT ![j] = "extracting"]
               /\ tLaunches' = [tLaunches EXCEPT ![j] =
                      Append(@, [program |-> "ffmpeg", args |-> ExtractArgs(tInput[j])])]
               /\ tExtract' = [tExtract EXCEPT ![j] = "running"]
               /\ UNCHANGED tResult
          ELSE /\ tPc' = [tPc EXCEPT ![j] = "done"]
               /\ tExtract' = [tExtract EXCEPT ![j] = "spawnfail"]
               /\ tResult' = [tResult EXCEPT ![j] = Err(<<"Failed to run ffmpeg: ">> \o IoError)]
               /\ UNCHANGED tLaunches
    /\ UNCHANGED <<tInput, tHeard, tReads, fs>>
    /\ UNCHANGED <<silenceVars, cmdVars>>

\* ffmpeg exits (-y: it overwrites temp_wav), and lines 249-254 look at its status.
\* A failing ffmpeg may or may not have written the file already.
ExtractExit(j) ==
    /\ tPc[j] = "extracting"
    /\ \E code \in ExitCodes, wrote \in BOOLEAN :
          LET status == IF code = 0 THEN "exit0" ELSE "exit1"
          IN  /\ code = 0 => wrote
              /\ fs' = IF wrote THEN [fs EXCEPT ![temp_wav] = j] ELSE fs
              /\ tExtract' = [tExtract EXCEPT ![j] = status]
              /\ IF ExtractionSucceeded(status)
                 THEN /\ tPc' = [tPc EXCEPT ![j] = "extracted"]
                      /\ UNCHANGED tResult
                 ELSE /\ tPc' = [tPc EXCEPT ![j] = "done"]
                      /\ tResult' = [tResult EXCEPT ![j] =
                             Err(<<"Failed to extract audio for transcription">>)]
    /\ UNCHANGED <<tInput, tLaunches, tHeard, tReads>>
    /\ UNCHANGED <<silenceVars, cmdVars>>

\* Lines 259-267 and 306: Command::output() launches whisper, or fails to.  The
\* whisper process reads the file temp_wav names as it starts.
SpawnWhisper(j) ==
    /\ tPc[j] = "extracted"
    /\ \E spawned \in BOOLEAN :
          IF spawned
          THEN /\ tPc' = [tPc EXCEPT ![j] = "transcribing"]
               /\ tLaunches' = [tLaunches EXCEPT ![j] =
                      Append(@, [program |-> "whisper", args |-> WhisperArgs(WhisperModel)])]
               /\ tHeard' = [tHeard EXCEPT ![j] = fs[temp_wav]]
               /\ UNCHANGED tResult
          ELSE /\ tPc' = [tPc EXCEPT ![j] = "done"]
               /\ tResult' = [tResult EXCEPT ![j] = Err(<<"Failed to run Whisper: ">> \o IoError)]
               /\ UNCHANGED <<tLaunches, tHeard>>
    /\ UNCHANGED <<tInput, tExtract, tReads, fs>>
    /\ UNCHANGED <<silenceVars, cmdVars>>

\* whisper exits; on success it has written the transcript of what it read.
\* Lines 269-271 and 301-304 look at its status.
WhisperExit(j) ==
    /\ tPc[j] = "transcribing"
    /\ \E code \in ExitCodes :
          IF code = 0
          THEN /\ fs' = [fs EXCEPT ![json_path] = tHeard[j]]
               /\ tPc' = [tPc EXCEPT ![j] = "transcribed"]
               /\ UNCHANGED tResult
          ELSE /\ tPc' = [tPc EXCEPT ![j] = "done"]
               /\ tResult' = [tResult EXCEPT ![j] =
                      Err(<<"Whisper failed: ">> \o <<"Traceback">>)]
               /\ UNCHANGED fs
    /\ UNCHANGED <<tInput, tLaunches, tExtract, tHeard, tReads>>
    /\ UNCHANGED <<silenceVars, cmdVars>>

\* Lines 272-299: read json_path and build the result from what it holds.
ReadTranscript(j) ==
    /\ tPc[j] = "transcribed"
    /\ tPc' = [tPc EXCEPT ![j] = "done"]
    /\ tReads' = [tReads EXCEPT ![j] = @ + 1]
    /\ tResult' = [tResult EXCEPT ![j] =
           IF fs[json_path] = 0
           THEN Err(<<"Failed to read Whisper output file">>)
           ELSE Ok(fs[json_path])]
    /\ UNCHANGED <<tInput, tLaunches, tExtract, tHeard, fs>>
    /\ UNCHANGED <<silenceVars, cmdVars>>

TransNext ==
    \E j \in Jobs :
        \/ SpawnExtract(j)
        \/ ExtractExit(j)
        \/ SpawnWhisper(j)
        \/ WhisperExit(j)
        \/ ReadTranscript(j)

SilenceIdle ==
    /\ aPath = <<>>
    /\ aStderr = <<>>
    /\ aPc = "idle"
    /\ aLaunch = NoLaunch
    /\ aSpawned = FALSE
    /\ aResult = NoResult

TransInit ==
    /\ tInput \in [Jobs -> SilencePaths]
    /\ tPc = [j \in Jobs |-> "start"]
    /\ tLaunches = [j \in Jobs |-> <<>>]
    /\ tExtract = [j \in Jobs |-> "none"]
    /\ tHeard = [j \in Jobs |-> 0]
    /\ tReads = [j \in Jobs |-> 0]
    /\ tResult = [j \in Jobs |-> NoResult]
    /\ fs = [f \in Files |-> 0]

InitTranscribe == TransInit /\ SilenceIdle /\ CmdIdle

SpecTranscribe == InitTranscribe /\ [][TransNext]_vars

(***************************************************************************)
(* Claims about transcribe_audio.                                          *)
(***************************************************************************)
\* C4: under any interleaving of concurrent transcribe_audio calls, the audio
\* handed to a call's transcription engine and the transcript the call reads
\* back are the ones produced for that call's own input.
C4_ScratchIsolation ==
    \A j \in Jobs :
        /\ tHeard[j] # 0 => tHeard[j] = j
        /\ (tPc[j] = "done" /\ tResult[j].ok) => tResult[j].val = j

LaunchCount(j, prog) == Cardinality({k \in 1..Len(tLaunches[j]) : tLaunches[j][k].program = prog})

\* C7: whisper is launched only after ffmpeg has exited with status 0; when the
\* extraction cannot be launched or exits non-zero the call returns an error
\* without launching whisper or reading a transcript; and a call launches each
\* process at most once.
C7_FailFastOrdering ==
    \A j \in Jobs :
        /\ LaunchCount(j, "whisper") > 0 => tExtract[j] = "exit0"
        /\ tExtract[j] \in {"spawnfail", "exit1"} =>
              /\ tPc[j] = "done"
              /\ ~tResult[j].ok
              /\ LaunchCount(j, "whisper") = 0
              /\ tReads[j] = 0
        /\ LaunchCount(j, "ffmpeg") <= 1
        /\ LaunchCount(j, "whisper") <= 1
        /\ tReads[j] > 0 => LaunchCount(j, "whisper") = 1

\* One call failed in its extraction and returned; another went through both stages.
C7_Witness ==
    \E j, k \in Jobs :
        /\ tExtract[j] = "exit1" /\ tPc[j] = "done"
        /\ tPc[k] = "done" /\ tResult[k].ok /\ LaunchCount(k, "whisper") = 1


(***************************************************************************)
(* The commands that run one process: get_video_duration, trim_video,      *)
(* cut_video_remove, extract_audio, export_video.  Each action is one call *)
(* of the handler, from its arguments to the Result it returns.            *)
(***************************************************************************)
OutPaths == { <<"o">>, <<"o", " ", "u", "t">> }

\* What Command::status() can give.
StatusOutcomes == {SpawnFailed} \cup {Exited(c, <<>>, <<>>) : c \in ExitCodes}

\* Lines 33-40.
ProbeArgs(file_path) ==
    << Lit("-v"), Lit("error"), Lit("-show_entries"), Lit("format=duration"),
       Lit("-of"), Lit("default=noprint_wrappers=1:nokey=1"), escape_path(file_path) >>

\* String::from_utf8_lossy: the model's texts are valid UTF-8, nothing is replaced.
FromUtf8Lossy(bytes) == bytes

\* Mutant of ProbeResult: a non-zero exit gives a generic message, and the
\* stdout of a failed probe is parsed all the same.
ProbeResult_Generic(file_path, outcome) ==
    IF outcome.spawned
    THEN LET duration == ParseF64(Trim(outcome.stdout))
         IN  IF duration.ok
             THEN Ok(duration.val)
             ELSE IF Success(outcome)
                  THEN Err(<<"Failed to parse duration">>)
                  ELSE Err(<<"ffprobe failed">>)
    ELSE Err(<<"Failed to run ffprobe: ">> \o IoError \o <<". Path: ">> \o file_path)

\* Lines 42-57.
ProbeResult(file_path, outcome) ==
    IF outcome.spawned
    THEN IF Success(outcome)
         THEN LET duration_str == FromUtf8Lossy(outcome.stdout)
                  duration == ParseF64(Trim(duration_str))
              IN  IF duration.ok
                  THEN Ok(duration.val)
                  ELSE Err(<<"Failed to parse duration">>)
         ELSE LET error == FromUtf8Lossy(outcome.stderr)
              IN  Err(<<"ffprobe failed: ">> \o error \o <<". Path: ">> \o file_path)
    ELSE Err(<<"Failed to run ffprobe: ">> \o IoError \o <<". Path: ">> \o file_path)

StdoutChars == {"1", "0", ".", "-", " ", "\n", "x"}
StderrTexts == { <<"No such file or directory">>, <<"Invalid data found when processing input">> }

ProbeOutcomes ==
    {SpawnFailed} \cup
    {Exited(c, out, err) :
        c \in ExitCodes, out \in SeqsUpTo(StdoutChars, MaxStdoutLen), err \in StderrTexts}

get_video_duration ==
    /\ cCall = NoCall
    /\ \E file_path \in Paths, outcome \in ProbeOutcomes :
          /\ cCall' = [NoCall EXCEPT !.cmd = "get_video_duration", !.input_path = file_path]
          /\ cLaunch' = [program |-> "ffprobe", args |-> ProbeArgs(file_path)]
          /\ cOutcome' = outcome
          /\ cResult' = ProbeResult(file_path, outcome)
    /\ UNCHANGED <<silenceVars, transVars>>

\* Lines 76-85, and again 127-136 and 217-226: the Result of a transcoder run.
StatusResult(outcome, failure) ==
    IF outcome.spawned
    THEN IF Success(outcome) THEN Ok(TRUE) ELSE Err(<<failure>>)
    ELSE Err(<<"Failed to run ffmpeg: ">> \o IoError)

Times == { Zero, [m |-> 25, e |-> 1], [m |-> 4, e |-> 0] }

\* Lines 65-73.
TrimArgs(input_path, output_path, start_time, end_time) ==
    << Lit("-i"), escape_path(input_path), Lit("-ss"), Display(start_time),
       Lit("-to"), Display(end_time), Lit("-c"), Lit("copy"),
       escape_path(output_path), Lit("-y") >>

trim_video ==
    /\ cCall = NoCall
    /\ \E input_path \in Paths, output_path \in OutPaths,
          start_time \in Times, end_time \in Times, outcome \in StatusOutcomes :
          /\ cCall' = [NoCall EXCEPT !.cmd = "trim_video", !.input_path = input_path,
                          !.output_path = output_path, !.start_time = start_time,
                          !.end_time = end_time]
          /\ cLaunch' = [program |-> "ffmpeg",
                         args |-> TrimArgs(input_path, output_path, start_time, end_time)]
          /\ cOutcome' = outcome
          /\ cResult' = StatusResult(outcome, "ffmpeg trim failed")
    /\ UNCHANGED <<silenceVars, transVars>>

SegmentTimes == { [m |-> 2, e |-> 0], [m |-> 4, e |-> 0], [m |-> 6, e |-> 0], [m |-> 9, e |-> 0] }

\* Lines 88-92.
CutSegment == [keep_start : SegmentTimes, keep_end : SegmentTimes]

\* Line 101.
CopyArgs(input_path, output_path) ==
    << Lit("-i"), escape_path(input_path), Lit("-c"), Lit("copy"),
       escape_path(output_path), Lit("-y") >>

\* Lines 103-106.
CopyResult(outcome) ==
    IF outcome.spawned
    THEN Ok(Success(outcome))
    ELSE Err(<<"Failed to run ffmpeg: ">> \o IoError)

\* Lines 95-110.
cut_video_remove ==
    /\ cCall = NoCall
    /\ \E input_path \in Paths, output_path \in OutPaths,
          segments \in SeqsUpTo(CutSegment, MaxSegments), outcome \in StatusOutcomes :
          /\ cCall' = [NoCall EXCEPT !.cmd = "cut_video_remove", !.input_path = input_path,
                          !.output_path = output_path, !.segments = segments]
          /\ IF segments = <<>>
             THEN /\ cLaunch' = [program |-> "ffmpeg", args |-> CopyArgs(input_path, output_path)]
                  /\ cOutcome' = outcome
                  /\ cResult' = CopyResult(outcome)
             ELSE /\ cLaunch' = NoLaunch
                  /\ cOutcome' = NotRun
                  /\ cResult' = Err(<<"Complex cut not yet implemented">>)
    /\ UNCHANGED <<silenceVars, transVars>>

\* Lines 117-124.  The format argument is not used.
ExtractAudioArgs(input_path, output_path) ==
    << Lit("-i"), escape_path(input_path), Lit("-vn"), Lit("-acodec"), Lit("pcm_s16le"),
       escape_path(output_path), Lit("-y") >>

extract_audio ==
    /\ cCall = NoCall
    /\ \E input_path \in Paths, output_path \in OutPaths,
          format \in {"wav", "mp3"}, outcome \in StatusOutcomes :
          /\ cCall' = [NoCall EXCEPT !.cmd = "extract_audio", !.input_path = input_path,
                          !.output_path = output_path, !.format = format]
          /\ cLaunch' = [program |-> "ffmpeg", args |-> ExtractAudioArgs(input_path, output_path)]
          /\ cOutcome' = outcome
          /\ cResult' = StatusResult(outcome, "ffmpeg audio extraction failed")
    /\ UNCHANGED <<silenceVars, transVars>>

Qualities == {"high", "medium", "low", "", "HIGH", "ultra"}

\* Mutant of codec_args: the fallback arm gives the "high" arguments.
codec_args_FallbackHigh(quality) ==
    CASE quality = "high" -> << Lit("-c:v"), Lit("libx264"), Lit("-crf"), Lit("18") >>
      [] quality = "medium" -> << Lit("-c:v"), Lit("libx264"), Lit("-crf"), Lit("23") >>
      [] quality = "low" -> << Lit("-c:v"), Lit("libx264"), Lit("-crf"), Lit("28") >>
      [] OTHER -> << Lit("-c:v"), Lit("libx264"), Lit("-crf"), Lit("18") >>

\* Lines 201-206.
codec_args(quality) ==
    CASE quality = "high" -> << Lit("-c:v"), Lit("libx264"), Lit("-crf"), Lit("18") >>
      [] quality = "medium" -> << Lit("-c:v"), Lit("libx264"), Lit("-crf"), Lit("23") >>
      [] quality = "low" -> << Lit("-c:v"), Lit("libx264"), Lit("-crf"), Lit("28") >>
      [] OTHER -> << Lit("-c:v"), Lit("libx264"), Lit("-crf"), Lit("23") >>

\* Lines 208-213.
ExportArgs(input_path, output_path, quality) ==
    << Lit("-i"), escape_path(input_path) >>
        \o codec_args(quality)
        \o << Lit("-preset"), Lit("medium"), escape_path(output_path), Lit("-y") >>

export_video ==
    /\ cCall = NoCall
    /\ \E input_path \in Paths, output_path \in OutPaths,
          quality \in Qualities, outcome \in StatusOutcomes :
          /\ cCall' = [NoCall EXCEPT !.cmd = "export_video", !.input_path = input_path,
                          !.output_path = output_path, !.quality = quality]
          /\ cLaunch' = [program |-> "ffmpeg",
                         args |-> ExportArgs(input_path, output_path, quality)]
          /\ cOutcome' = outcome
          /\ cResult' = StatusResult(outcome, "ffmpeg export failed")
    /\ UNCHANGED <<silenceVars, transVars>>

\* The Result goes back to the caller; the next command can be invoked.
Return ==
    /\ cCall # NoCall
    /\ cCall' = NoCall
    /\ cLaunch' = NoLaunch
    /\ cOutcome' = NotRun
    /\ cResult' = NoResult
    /\ UNCHANGED <<silenceVars, transVars>>

CmdNext ==
    \/ get_video_duration
    \/ trim_video
    \/ cut_video_remove
    \/ extract_audio
    \/ export_video
    \/ Return

InitCommands == CmdIdle /\ SilenceIdle /\ TransIdle

SpecCommands == InitCommands /\ [][CmdNext]_vars


(***************************************************************************)
(* Claims about the one-process commands.                                  *)
(***************************************************************************)
Launched == cLaunch # NoLaunch

TranscoderCmds == {"trim_video", "cut_video_remove", "extract_audio", "export_video"}

\* C5: a transcoder command returns an error when the process exits with a
\* non-zero code, returns a success only when the exit code is 0, and returns an
\* error when the process cannot be started.
C5_ExitStatus ==
    cCall.cmd \in TranscoderCmds =>
        /\ (Launched /\ cOutcome.spawned /\ cOutcome.code # 0) => ~cResult.ok
        /\ cResult.ok => (Launched /\ cOutcome.spawned /\ cOutcome.code = 0)
        /\ (Launched /\ ~cOutcome.spawned) => ~cResult.ok

ClipDuration == [m |-> 10, e |-> 0]

LessEq(a, b) == ~Less(b, a)

InBounds(seg) ==
    /\ LessEq(Zero, seg.keep_start)
    /\ Less(seg.keep_start, seg.keep_end)
    /\ LessEq(seg.keep_end, ClipDuration)

Overlapping(a, b) == Less(a.keep_start, b.keep_end) /\ Less(b.keep_start, a.keep_end)

HasOverlap(segs) ==
    \E i, j \in 1..Len(segs) : i < j /\ Overlapping(segs[i], segs[j])

AllInBounds(segs) == \A i \in 1..Len(segs) : InBounds(segs[i])

\* edl holds the ranges of segs, sorted by start, indexed 0..n-1.
IsEDLOf(edl, segs) ==
    /\ Len(edl) = Len(segs)
    /\ \A k \in 1..Len(edl) : edl[k].index = k - 1
    /\ \A k \in 1..(Len(edl) - 1) : Less(edl[k].keep_start, edl[k + 1].keep_start)
    /\ {[keep_start |-> edl[k].keep_start, keep_end |-> edl[k].keep_end] : k \in 1..Len(edl)}
          = {segs[k] : k \in 1..Len(segs)}

\* C6: for a non-empty list of in-bounds, pairwise non-overlapping keep
\* segments in any order, cut_video_remove succeeds with the EDL sorted by
\* start and indexed 0..n-1; an in-bounds list with an overlapping pair fails
\* with the Overlap planning error.
C6_KeepRangePlanning ==
    (cCall.cmd = "cut_video_remove" /\ cCall.segments # <<>> /\ AllInBounds(cCall.segments)) =>
        IF HasOverlap(cCall.segments)
        THEN ~cResult.ok /\ cResult.msg = <<"Overlap">>
        ELSE cResult.ok /\ IsEDLOf(cResult.val, cCall.segments)

\* The argument that carries input_path: the last one of ffprobe, the one
\* after -i of ffmpeg.
InputToken == IF cLaunch.program = "ffprobe" THEN cLaunch.args[Len(cLaunch.args)] ELSE cLaunch.args[2]

\* C8: every command launches its tool directly (the program is the tool, not
\* a shell) and the path argument is, character for character, the input path.
C8_PathFidelity ==
    Launched =>
        /\ cLaunch.program \in {"ffmpeg", "ffprobe"}
        /\ InputToken = cCall.input_path

\* s without its leading and trailing white space is a decimal numeral: an
\* optional sign first, digits, at most one point, at least one digit.
IsNumberText(s) ==
    LET ink == {k \in 1..Len(s) : s[k] \notin WhiteSpace}
    IN  /\ ink # {}
        /\ LET a == CHOOSE k \in ink : \A l \in ink : k <= l
               b == CHOOSE k \in ink : \A l \in ink : l <= k
               digits == {k \in a..b : IsDigit(s[k])}
               points == {k \in a..b : s[k] = "."}
               signs == {k \in a..b : s[k] \in {"+", "-"}}
           IN  /\ digits \cup points \cup signs = a..b
               /\ Cardinality(points) <= 1
               /\ signs \subseteq {a}
               /\ digits # {}

\* C9: get_video_duration returns a duration only when ffprobe started, exited
\* with status 0 and its trimmed stdout is a number; every other outcome is an
\* error, and the error of a non-zero exit contains ffprobe's stderr text.
C9_ProbeClassification ==
    cCall.cmd = "get_video_duration" =>
        /\ cResult.ok <=>
              (cOutcome.spawned /\ cOutcome.code = 0 /\ IsNumberText(cOutcome.stdout))
        /\ (cOutcome.spawned /\ cOutcome.code # 0) => Contains(cResult.msg, cOutcome.stderr)

\* ffprobe printed a number and exited non-zero: the call returned the error
\* that carries its stderr.
C9_Witness ==
    /\ cCall.cmd = "get_video_duration"
    /\ cOutcome.spawned /\ cOutcome.code # 0 /\ IsNumberText(cOutcome.stdout)
    /\ ~cResult.ok
    /\ Contains(cResult.msg, cOutcome.stderr)

\* C10: export_video maps "high", "medium" and "low" to -crf 18, 23 and 28 with
\* libx264, gives every other quality string the arguments of "medium", and no
\* quality string makes the call fail.
C10_QualityPresets ==
    cCall.cmd = "export_video" =>
        LET Crf(n) == << <<"-c:v">>, <<"libx264">>, <<"-crf">>, <<n>> >>
            got == SubSeq(cLaunch.args, 3, 6)
        IN  /\ Launched
            /\ got = CASE cCall.quality = "high" -> Crf("18")
                       [] cCall.quality = "low" -> Crf("28")
                       [] OTHER -> Crf("23")
            /\ (cOutcome.spawned /\ cOutcome.code = 0) => cResult.ok

\* An unrecognised quality string was exported successfully.
C10_Witness ==
    /\ cCall.cmd = "export_video"
    /\ cCall.quality \notin {"high", "medium", "low"}
    /\ cResult.ok

=============================================================================
